---- MODULE Spec2Model ----
(***************************************************************************)
(* Model of src/meu_bot_agenda.py: the MongoDB-backed appointment store    *)
(* (salvar_agendamento_no_db, verificar_conflito,                          *)
(* carregar_agendamentos_do_db, apagar_agendamento_do_db,                  *)
(* limpar_agendamentos_do_db), the Create flow                             *)
(* (tratar_novo_agendamento) that drives it, and the message front end:    *)
(* the router handle_text, the five handlers it calls and the two text     *)
(* analyzers (analisar_agendamento, analisar_consulta_agenda).             *)
(*                                                                         *)
(* The collection lives in MongoDB and is shared by every handler that is  *)
(* running against it.  The pymongo calls are synchronous, so handlers of  *)
(* one event loop do not interleave between two calls of one handler;      *)
(* handlers of different server processes connected to the same database   *)
(* do.  The unit of atomicity is one MongoDB call (update_one, find_one,   *)
(* find, delete_many); a handler that makes several calls is several       *)
(* steps.                                                                  *)
(*                                                                         *)
(* Strings that the code orders (data_iso, hora) are sequences of ASCII    *)
(* codes compared lexicographically, as MongoDB compares strings.          *)
(* Subject names and message texts are sequences of one-character         *)
(* strings.  Dates are records of year, month, day, hour and minute.       *)
(* dateparser is an external library: it is modelled on a fixed            *)
(* vocabulary, and whether it parses a time word that stands alone is      *)
(* left open (hora_sozinha).                                               *)
(* One document per data_iso is assumed (the upsert is keyed by data_iso). *)
(***************************************************************************)
EXTENDS Integers, Sequences, FiniteSets, TLC

VARIABLES client, agenda_collection, pc, cmd, ret, erro,
          agora, hora_sozinha, update, tratou, analise, excecao

vars == <<client, agenda_collection, pc, cmd, ret, erro,
          agora, hora_sozinha, update, tratou, analise, excecao>>

(***************************************************************************)
(* Bounds and input sets                                                   *)
(***************************************************************************)
\* Create commands are accepted while fewer than this many appointments are stored.
MaxAgendamentos == 3

\* The same, where handlers run concurrently.
MaxAgendamentosConc == 2

\* The handlers that may run at the same time (one per server process).
Procs == {"h1", "h2"}

\* The calendar dates the commands name (January 2024, across the 9/10 digit change).
Datas ==
    { [year |-> 2024, month |-> 1, day |-> 9],
      [year |-> 2024, month |-> 1, day |-> 10],
      [year |-> 2024, month |-> 1, day |-> 11] }

\* The times of day the commands name.
Horarios == { [hour |-> 9, minute |-> 0], [hour |-> 15, minute |-> 0] }

Rex == <<"R", "e", "x">>
rex == <<"r", "e", "x">>
RexEspaco == <<"R", "e", "x", " ">>
Bob == <<"B", "o", "b">>

\* Subject names the Create flow can produce (analisar_agendamento strips them).
NomesCriar == {Rex, rex, Bob}
\* Subject names handed to the store functions.
Nomes == NomesCriar \cup {RexEspaco}

(***************************************************************************)
(* Strings                                                                 *)
(***************************************************************************)
Chr(d) == 48 + d

Digits2(n) == <<Chr(n \div 10), Chr(n % 10)>>

Digits4(n) ==
    <<Chr(n \div 1000), Chr((n \div 100) % 10), Chr((n \div 10) % 10), Chr(n % 10)>>

\* strftime("%Y-%m-%d"); 45 is "-".
strftime_Ymd(d) == Digits4(d.year) \o <<45>> \o Digits2(d.month) \o <<45>> \o Digits2(d.day)

\* strftime("%H:%M"); 58 is ":".
strftime_HM(h) == Digits2(h.hour) \o <<58>> \o Digits2(h.minute)

MinInt(a, b) == IF a <= b THEN a ELSE b

\* String order of MongoDB's $gte/$lte/$sort: lexicographic by character code.
StrLess(a, b) ==
    \E i \in 1..(MinInt(Len(a), Len(b)) + 1) :
        /\ \A j \in 1..(i - 1) : a[j] = b[j]
        /\ \/ i > Len(a) /\ i <= Len(b)
           \/ i <= Len(a) /\ i <= Len(b) /\ a[i] < b[i]

StrLeq(a, b) == a = b \/ StrLess(a, b)

\* Case folding of re.IGNORECASE on the letters used.
LowerChar(c) ==
    CASE c = "R" -> "r"
      [] c = "B" -> "b"
      [] c = "A" -> "a"
      [] c = "D" -> "d"
      [] c = "F" -> "f"
      [] c = "H" -> "h"
      [] c = "J" -> "j"
      [] c = "M" -> "m"
      [] c = "N" -> "n"
      [] c = "O" -> "o"
      [] c = "S" -> "s"
      [] c = "U" -> "u"
      [] OTHER -> c

\* Mutant of RegexMatch: the flag re.IGNORECASE is forgotten.
RegexMatch_CaseSensitive(nome, s) == nome = s

\* re.compile("^" + re.escape(nome) + "$", re.IGNORECASE) matched against s:
\* the literal must cover s from its first to its last character.
RECURSIVE RegexMatch(_, _)
RegexMatch(nome, s) ==
    IF nome = <<>> THEN s = <<>>
    ELSE /\ s # <<>>
         /\ LowerChar(Head(nome)) = LowerChar(Head(s))
         /\ RegexMatch(Tail(nome), Tail(s))

(***************************************************************************)
(* Message text: sequences of one-character strings, with the str methods  *)
(* the code calls on them                                                  *)
(***************************************************************************)
\* str.lower()
str_lower(s) == [i \in 1..Len(s) |-> LowerChar(s[i])]

\* The characters str.strip() and str.split() take as white space.
IsSpace(c) == c \in {" ", "\n"}

RECURSIVE str_lstrip(_)
str_lstrip(s) == IF s # <<>> /\ IsSpace(Head(s)) THEN str_lstrip(Tail(s)) ELSE s

RECURSIVE str_rstrip(_)
str_rstrip(s) ==
    IF s # <<>> /\ IsSpace(s[Len(s)]) THEN str_rstrip(SubSeq(s, 1, Len(s) - 1)) ELSE s

\* str.strip()
str_strip(s) == str_rstrip(str_lstrip(s))

\* Mutant of str_startswith: the whole text must equal the keyword.
str_startswith_Equal(s, prefix) == s = prefix

\* str.startswith(prefix)
str_startswith(s, prefix) == Len(prefix) <= Len(s) /\ SubSeq(s, 1, Len(prefix)) = prefix

\* old in s
str_in(old, s) ==
    \E i \in 1..(Len(s) - Len(old) + 1) : SubSeq(s, i, i + Len(old) - 1) = old

\* s.replace(old, ""): every occurrence of old, found left to right, is removed.
RECURSIVE str_replace(_, _)
str_replace(s, old) ==
    IF Len(s) < Len(old) THEN s
    ELSE IF SubSeq(s, 1, Len(old)) = old
         THEN str_replace(SubSeq(s, Len(old) + 1, Len(s)), old)
         ELSE <<Head(s)>> \o str_replace(Tail(s), old)

\* The length of the run of non-space characters s starts with.
RECURSIVE Palavra1(_)
Palavra1(s) == IF s = <<>> \/ IsSpace(Head(s)) THEN 0 ELSE 1 + Palavra1(Tail(s))

\* s.split(): the maximal runs of non-space characters.
RECURSIVE str_split(_)
str_split(s) ==
    LET t == str_lstrip(s)
        n == Palavra1(t)
    IN IF t = <<>> THEN <<>>
       ELSE <<SubSeq(t, 1, n)>> \o str_split(SubSeq(t, n + 1, Len(t)))

\* " ".join(palavras)
RECURSIVE str_join(_)
str_join(palavras) ==
    IF palavras = <<>> THEN <<>>
    ELSE IF Len(palavras) = 1 THEN palavras[1]
    ELSE palavras[1] \o <<" ">> \o str_join(Tail(palavras))

\* The words of the messages.
w_ajuda == <<"a", "j", "u", "d", "a">>
w_agenda == <<"a", "g", "e", "n", "d", "a">>
w_apagar == <<"a", "p", "a", "g", "a", "r">>
w_limpar == <<"l", "i", "m", "p", "a", "r">>
w_agendamento == <<"a", "g", "e", "n", "d", "a", "m", "e", "n", "t", "o">>
w_de == <<"d", "e">>
w_do == <<"d", "o">>
w_da == <<"d", "a">>
w_hoje == <<"h", "o", "j", "e">>
w_dia == <<"d", "i", "a">>
w_amanha == <<"a", "m", "a", "n", "h", "ã">>
w_ontem == <<"o", "n", "t", "e", "m">>
w_semana == <<"s", "e", "m", "a", "n", "a">>
w_mes == <<"m", "ê", "s">>
w_agosto == <<"a", "g", "o", "s", "t", "o">>
w_august == <<"a", "u", "g", "u", "s", "t">>
w_tomorrow == <<"t", "o", "m", "o", "r", "r", "o", "w">>
w_1311 == <<"1", "3", "/", "1", "1">>
w_15h == <<"1", "5", "h">>
w_3pm == <<"3", "p", "m">>
w_1030 == <<"1", "0", ":", "3", "0">>
w_0000 == <<"0", "0", ":", "0", "0">>
w_meia_noite == <<"m", "e", "i", "a", "-", "n", "o", "i", "t", "e">>
w_xyz == <<"x", "y", "z">>
w_AJUDA == <<"A", "J", "U", "D", "A">>
w_Agenda == <<"A", "g", "e", "n", "d", "a">>
w_Hoje == <<"H", "o", "j", "e">>
w_Meia_Noite == <<"M", "e", "i", "a", "-", "N", "o", "i", "t", "e">>

\* calendar.month_name[1..12]: the code never calls setlocale, so the names are
\* those of the C locale.
month_name ==
    <<<<"J", "a", "n", "u", "a", "r", "y">>,
      <<"F", "e", "b", "r", "u", "a", "r", "y">>,
      <<"M", "a", "r", "c", "h">>,
      <<"A", "p", "r", "i", "l">>,
      <<"M", "a", "y">>,
      <<"J", "u", "n", "e">>,
      <<"J", "u", "l", "y">>,
      <<"A", "u", "g", "u", "s", "t">>,
      <<"S", "e", "p", "t", "e", "m", "b", "e", "r">>,
      <<"O", "c", "t", "o", "b", "e", "r">>,
      <<"N", "o", "v", "e", "m", "b", "e", "r">>,
      <<"D", "e", "c", "e", "m", "b", "e", "r">>>>

(***************************************************************************)
(* Dates: datetime values, timedelta(days=n), weekday(), monthrange        *)
(***************************************************************************)
datetime(year, month, day, hour, minute) ==
    [year |-> year, month |-> month, day |-> day, hour |-> hour, minute |-> minute]

\* None, where the code holds a datetime.
None == datetime(0, 0, 0, 0, 0)

IsLeap(year) == year % 4 = 0 /\ (year % 100 # 0 \/ year % 400 = 0)

\* calendar.monthrange(year, month)[1]: the number of days of the month.
monthrange(year, month) ==
    IF month = 2 THEN (IF IsLeap(year) THEN 29 ELSE 28)
    ELSE IF month \in {4, 6, 9, 11} THEN 30 ELSE 31

DiaSeguinte(d) ==
    IF d.day < monthrange(d.year, d.month) THEN [d EXCEPT !.day = @ + 1]
    ELSE IF d.month < 12 THEN [d EXCEPT !.month = @ + 1, !.day = 1]
    ELSE [d EXCEPT !.year = @ + 1, !.month = 1, !.day = 1]

DiaAnterior(d) ==
    IF d.day > 1 THEN [d EXCEPT !.day = @ - 1]
    ELSE IF d.month > 1
         THEN [d EXCEPT !.month = @ - 1, !.day = monthrange(d.year, d.month - 1)]
         ELSE [d EXCEPT !.year = @ - 1, !.month = 12, !.day = 31]

\* d + timedelta(days=n), n of either sign.
RECURSIVE timedelta_days(_, _)
timedelta_days(d, n) ==
    IF n = 0 THEN d
    ELSE IF n > 0 THEN timedelta_days(DiaSeguinte(d), n - 1)
    ELSE timedelta_days(DiaAnterior(d), n + 1)

RECURSIVE days_before_month(_, _)
days_before_month(year, month) ==
    IF month = 1 THEN 0
    ELSE days_before_month(year, month - 1) + monthrange(year, month - 1)

\* date.toordinal(): 1 for 0001-01-01.
toordinal(d) ==
    LET y == d.year - 1
    IN y * 365 + (y \div 4) - (y \div 100) + (y \div 400)
         + days_before_month(d.year, d.month) + d.day

\* Mutant of weekday: the week starts on Sunday.
weekday_SundayFirst(d) == toordinal(d) % 7

\* date.weekday(): 0 for Monday ... 6 for Sunday.
weekday(d) == (toordinal(d) + 6) % 7

\* get_hoje().replace(hour=0, minute=0, second=0, microsecond=0)
InicioDoDia(now) == [now EXCEPT !.hour = 0, !.minute = 0]

(***************************************************************************)
(* dateparser.parse(texto, settings=DATEPARSER_SETTINGS): the library is    *)
(* not part of the repository.  It is modelled on a vocabulary of date     *)
(* words and time words, letter case ignored: a date word alone gives that *)
(* date at 00:00 (as the comment of analisar_agendamento expects), a date  *)
(* word followed by a time word gives that date at that time, and a time   *)
(* word alone gives today at that time when the library reads a time on    *)
(* its own (hs), None otherwise.  Every other text gives None.             *)
(***************************************************************************)
PalavrasData == {w_hoje, w_amanha, w_tomorrow, w_ontem, w_1311, w_agosto, w_august}

PalavrasHora == {w_15h, w_3pm, w_1030, w_0000, w_meia_noite}

\* PREFER_DATES_FROM = future: a day and month already past are next year's.
AnoFuturo(now, month, day) ==
    IF month < now.month \/ (month = now.month /\ day < now.day)
    THEN now.year + 1 ELSE now.year

ParseData(palavra, now) ==
    LET hoje == InicioDoDia(now)
    IN IF palavra = w_hoje THEN hoje
       ELSE IF palavra \in {w_amanha, w_tomorrow} THEN timedelta_days(hoje, 1)
       ELSE IF palavra = w_ontem THEN timedelta_days(hoje, -1)
       ELSE IF palavra = w_1311 THEN datetime(AnoFuturo(now, 11, 13), 11, 13, 0, 0)
       ELSE datetime(AnoFuturo(now, 8, now.day), 8, now.day, 0, 0)

ParseHora(palavra) ==
    IF palavra \in {w_15h, w_3pm} THEN [hour |-> 15, minute |-> 0]
    ELSE IF palavra = w_1030 THEN [hour |-> 10, minute |-> 30]
    ELSE [hour |-> 0, minute |-> 0]

dateparser_parse(texto, now, hs) ==
    LET p == str_split(str_lower(texto))
        hoje == InicioDoDia(now)
    IN IF Len(p) = 1 /\ p[1] \in PalavrasData THEN ParseData(p[1], now)
       ELSE IF Len(p) = 1 /\ p[1] \in PalavrasHora /\ hs
            THEN [hoje EXCEPT !.hour = ParseHora(p[1]).hour,
                              !.minute = ParseHora(p[1]).minute]
       ELSE IF Len(p) = 2 /\ p[1] \in PalavrasData /\ p[2] \in PalavrasHora
            THEN [ParseData(p[1], now) EXCEPT !.hour = ParseHora(p[2]).hour,
                                              !.minute = ParseHora(p[2]).minute]
       ELSE None

(***************************************************************************)
(* analisar_agendamento                                                    *)
(***************************************************************************)
ErroNomeVazio == "Não consegui identificar o nome do cachorro antes da data."
ErroSemHorario == "Você precisa me dizer um horário"
ErroSemData == "Não consegui entender a data ou hora que você digitou."

\* texto_data_potencial of the loop at index i: " ".join(palavras[i-1:]).
Janela(palavras, i) == str_join(SubSeq(palavras, i, Len(palavras)))

\* Mutant of PrimeiraJanela: the widest window that parses is taken.
PrimeiraJanela_Widest(palavras, i, now, hs) ==
    LET ok == { j \in 1..i : dateparser_parse(Janela(palavras, j), now, hs) # None }
    IN IF ok = {} THEN 0 ELSE CHOOSE j \in ok : \A k \in ok : j <= k

\* for i in range(len(palavras), 0, -1): the first i whose window parses, 0
\* when the loop ends without one.
RECURSIVE PrimeiraJanela(_, _, _, _)
PrimeiraJanela(palavras, i, now, hs) ==
    IF i = 0 THEN 0
    ELSE IF dateparser_parse(Janela(palavras, i), now, hs) # None THEN i
    ELSE PrimeiraJanela(palavras, i - 1, now, hs)

\* Mutant of SemHorario: 00:00 is always taken as "no time given".
SemHorario_SoZero(data_parseada, texto_data_potencial) ==
    data_parseada.hour = 0 /\ data_parseada.minute = 0

\* The test of lines 95-97: the parser gave 00:00 and the window does not say so.
SemHorario(data_parseada, texto_data_potencial) ==
    /\ data_parseada.hour = 0 /\ data_parseada.minute = 0
    /\ ~str_in(w_0000, texto_data_potencial)
    /\ ~str_in(w_meia_noite, texto_data_potencial)

\* Returns <<nome_cachorro, data_parseada, erro>>; <<>>, None and "" stand for
\* None of Python in the three places.
analisar_agendamento(texto_completo, now, hs) ==
    LET palavras == str_split(texto_completo)
        i == PrimeiraJanela(palavras, Len(palavras), now, hs)
        texto_data_potencial == Janela(palavras, i)
        data_parseada == dateparser_parse(texto_data_potencial, now, hs)
        nome_cachorro == str_strip(str_join(SubSeq(palavras, 1, i - 1)))
    IN IF i = 0 THEN <<<<>>, None, ErroSemData>>
       ELSE IF nome_cachorro = <<>> THEN <<<<>>, None, ErroNomeVazio>>
       ELSE IF SemHorario(data_parseada, texto_data_potencial)
            THEN <<<<>>, None, ErroSemHorario>>
       ELSE <<nome_cachorro, data_parseada, "">>

(***************************************************************************)
(* analisar_consulta_agenda                                                *)
(***************************************************************************)
\* The title or the error message: its fixed words and the text put into it.
Titulo(msg, texto) == <<msg, texto>>

ErroPeriodo == "Desculpe, não entendi o período"

\* Returns <<data_inicio, data_fim, titulo>>; data_inicio is None on error and
\* titulo is then the error message.
analisar_consulta_agenda(texto_consulta, now, hs) ==
    LET hoje == InicioDoDia(now)
        texto == str_strip(str_replace(str_replace(str_replace(
                     str_lower(texto_consulta),
                     str_join(<<w_agenda, w_de>>)), str_join(<<w_agenda, w_do>>)), w_agenda))
        inicio_semana == timedelta_days(hoje, 0 - weekday(hoje))
        data_parseada == dateparser_parse(texto, now, hs)
        nomes_meses_pt == [i \in 1..12 |-> str_lower(month_name[i])]
        mes_num == CHOOSE i \in 1..12 :
                       nomes_meses_pt[i] = texto /\ \A j \in 1..(i - 1) : nomes_meses_pt[j] # texto
    IN IF texto = w_hoje \/ texto = w_dia THEN <<hoje, hoje, Titulo("Agenda de Hoje", <<>>)>>
       ELSE IF texto = w_amanha
            THEN <<timedelta_days(hoje, 1), timedelta_days(hoje, 1),
                   Titulo("Agenda de Amanhã", <<>>)>>
       ELSE IF texto = w_ontem
            THEN <<timedelta_days(hoje, -1), timedelta_days(hoje, -1),
                   Titulo("Agenda de Ontem", <<>>)>>
       ELSE IF texto = w_semana
            THEN <<inicio_semana, timedelta_days(inicio_semana, 6),
                   Titulo("Agenda da Semana", <<>>)>>
       ELSE IF texto = w_mes
            THEN <<[hoje EXCEPT !.day = 1],
                   [hoje EXCEPT !.day = monthrange(hoje.year, hoje.month)],
                   Titulo("Agenda do Mês", <<>>)>>
       ELSE IF data_parseada = None THEN <<None, None, Titulo(ErroPeriodo, texto)>>
       ELSE IF \E i \in 1..12 : nomes_meses_pt[i] = texto
            THEN <<[hoje EXCEPT !.month = mes_num, !.day = 1],
                   [hoje EXCEPT !.month = mes_num, !.day = monthrange(hoje.year, mes_num)],
                   Titulo("Agenda de", texto)>>
       ELSE <<data_parseada, data_parseada, Titulo("Agenda de", <<>>)>>

(***************************************************************************)
(* Messages and clocks                                                     *)
(***************************************************************************)
\* The longest text handed to analisar_agendamento on its own, in words.
MaxPalavras == 3

\* The number of consecutive days get_hoje() is taken from.
DiasAgora == 28

\* Create messages are accepted while fewer than this many appointments are stored.
MaxAgendamentosMsg == 2

\* Wednesday 2024-01-10, 10:00.
Agora0 == datetime(2024, 1, 10, 10, 0)

\* The values of get_hoje(): every day from 2023-12-20 on, across the turn of
\* the year, and the days around 29 February 2024.
Agoras ==
    { timedelta_days(datetime(2023, 12, 20, 10, 0), n) : n \in 0..(DiasAgora - 1) }
        \cup { datetime(2024, 2, 28, 10, 0), datetime(2024, 2, 29, 10, 0),
               datetime(2024, 3, 1, 10, 0) }

\* The words of the texts handed to analisar_agendamento.
Vocabulario == {Rex, w_da, w_amanha, w_tomorrow, w_15h, w_3pm, w_0000, w_meia_noite}

\* Texts with white space other than one blank between the words.
TextosEspaco ==
    { <<" ", " ">> \o Rex \o <<" ", " ">> \o w_amanha \o <<"\n">> \o w_15h \o <<" ">>,
      Rex \o <<" ", " ">> \o w_da \o <<" ">> \o w_amanha \o <<" ">> \o w_0000,
      <<" ">> \o w_15h }

TextosAgendamento ==
    { str_join(s) : s \in UNION { [1..k -> Vocabulario] : k \in 1..MaxPalavras } }
        \cup TextosEspaco

\* The period phrases handed to analisar_consulta_agenda.
Frases ==
    { w_hoje, w_dia, w_amanha, w_ontem, w_semana, w_mes, w_agosto, w_august, w_1311,
      w_xyz, w_15h,
      str_join(<<w_da, w_semana>>),
      str_join(<<w_agenda, w_de, w_hoje>>),
      str_join(<<w_agenda, w_do, w_dia>>),
      str_join(<<w_agenda, w_da, w_semana>>),
      str_join(<<w_agenda, w_do, w_mes>>),
      str_join(<<w_agenda, w_de, w_agosto>>),
      str_join(<<w_agenda, w_1311>>),
      str_join(<<w_Agenda, w_de, w_Hoje>>),
      str_join(<<w_agenda, w_semana>>) }

\* The texts of the messages the bot receives.
Mensagens ==
    { w_ajuda,
      <<" ">> \o w_AJUDA \o <<" ">>,
      str_join(<<w_agenda, w_de, w_hoje>>),
      str_join(<<w_Agenda, w_de, w_Hoje>>),
      str_join(<<w_agenda, w_do, w_dia>>),
      str_join(<<w_agenda, w_de, w_amanha>>),
      str_join(<<w_agenda, w_da, w_semana>>),
      str_join(<<w_agenda, w_do, w_mes>>),
      str_join(<<w_agenda, w_xyz>>),
      str_join(<<w_limpar, w_agenda, w_de, w_hoje>>),
      str_join(<<w_limpar, w_agenda, w_da, w_semana>>),
      str_join(<<w_limpar, w_agenda, w_do, w_mes>>),
      str_join(<<w_apagar, Rex, w_amanha, w_15h>>),
      str_join(<<w_apagar, w_agendamento, Rex, w_1030>>),
      str_join(<<w_apagar, Rex, w_amanha>>),
      w_apagar,
      str_join(<<Rex, w_amanha, w_15h>>),
      str_join(<<rex, w_amanha, w_15h>>),
      str_join(<<Rex, w_1030>>),
      str_join(<<Rex, w_amanha>>),
      str_join(<<Rex, w_amanha, w_0000>>),
      str_join(<<Rex, w_amanha, w_meia_noite>>),
      str_join(<<Rex, w_amanha, w_Meia_Noite>>),
      str_join(<<w_amanha, w_15h>>),
      w_15h,
      w_amanha,
      Rex,
      str_join(<<w_ajuda, Rex>>) }

\* What a handler got from analisar_agendamento or analisar_consulta_agenda:
\* the function, the text it was given and the tuple it returned.
Analise(fn, entrada, saida) == [fn |-> fn, entrada |-> entrada, saida |-> saida]

NoAnalise == Analise("none", <<>>, <<>>)

(***************************************************************************)
(* The collection: a map from data_iso to that day's "agendamentos" array  *)
(***************************************************************************)
DatasIso == { strftime_Ymd(d) : d \in Datas }

NovoAgendamento(hora_str, nome_cachorro) ==
    [hora |-> hora_str, nome_cachorro |-> nome_cachorro]

\* The $elemMatch / $pull condition: hora equal, nome_cachorro matching the regex.
ElemMatch(ag, hora_str, nome_cachorro) ==
    /\ ag.hora = hora_str
    /\ RegexMatch(nome_cachorro, ag.nome_cachorro)

\* update_one({data_iso}, {$push: {agendamentos: ag}, $set: {data_iso}}, upsert=True)
UpdatePushUpsert(col, data_iso, ag) ==
    IF data_iso \in DOMAIN col
    THEN [col EXCEPT ![data_iso] = Append(@, ag)]
    ELSE [k \in DOMAIN col \cup {data_iso} |-> IF k = data_iso THEN <<ag>> ELSE col[k]]

IsSortedHora(s) == \A i \in 1..(Len(s) - 1) : StrLeq(s[i].hora, s[i + 1].hora)

\* Mutant of SortHora: the array is left in the order it has.
SortHora_Unsorted(s) == {s}

\* $sort: {hora: 1}: the array reordered ascending by hora.  The order MongoDB
\* gives to elements of equal hora is not specified, so every such order is allowed.
SortHora(s) ==
    { t \in { [i \in 1..Len(s) |-> s[f[i]]] : f \in Permutations(1..Len(s)) } :
        IsSortedHora(t) }

\* Mutant of UpdatePushSort: the second update_one does nothing.
UpdatePushSort_NoOp(col, data_iso) == {col}

\* update_one({data_iso}, {$push: {agendamentos: {$each: [], $sort: {hora: 1}}}}):
\* the collections it may leave (no document matched: nothing changes).
UpdatePushSort(col, data_iso) ==
    IF data_iso \in DOMAIN col
    THEN { [col EXCEPT ![data_iso] = t] : t \in SortHora(col[data_iso]) }
    ELSE {col}

\* find_one({data_iso, agendamentos: {$elemMatch: {hora, nome_cachorro: regex}}}) is not None
FindOneElemMatch(col, data_iso, hora_str, nome_cachorro) ==
    /\ data_iso \in DOMAIN col
    /\ \E i \in 1..Len(col[data_iso]) : ElemMatch(col[data_iso][i], hora_str, nome_cachorro)

\* Mutant of PullMatching: only the first matching element is removed.
PullMatching_FirstOnly(s, hora_str, nome_cachorro) ==
    IF \E i \in 1..Len(s) : ElemMatch(s[i], hora_str, nome_cachorro)
    THEN LET f == CHOOSE i \in 1..Len(s) :
                      /\ ElemMatch(s[i], hora_str, nome_cachorro)
                      /\ \A j \in 1..(i - 1) : ~ElemMatch(s[j], hora_str, nome_cachorro)
         IN SubSeq(s, 1, f - 1) \o SubSeq(s, f + 1, Len(s))
    ELSE s

\* $pull: every array element matching the condition is removed.
PullMatching(s, hora_str, nome_cachorro) ==
    LET keep(ag) == ~ElemMatch(ag, hora_str, nome_cachorro) IN SelectSeq(s, keep)

\* Mutant of UpdatePull: a document whose array becomes empty is removed.
UpdatePull_DropEmpty(col, data_iso, hora_str, nome_cachorro) ==
    IF data_iso \in DOMAIN col
    THEN LET resto == PullMatching(col[data_iso], hora_str, nome_cachorro)
         IN IF resto = <<>>
            THEN [k \in DOMAIN col \ {data_iso} |-> col[k]]
            ELSE [col EXCEPT ![data_iso] = resto]
    ELSE col

\* update_one({data_iso}, {$pull: {agendamentos: {hora, nome_cachorro: regex}}})
UpdatePull(col, data_iso, hora_str, nome_cachorro) ==
    IF data_iso \in DOMAIN col
    THEN [col EXCEPT ![data_iso] = PullMatching(@, hora_str, nome_cachorro)]
    ELSE col

\* Mutant of UpdateSetVazio: the document is deleted instead of emptied.
UpdateSetVazio_Delete(col, data_iso) == [k \in DOMAIN col \ {data_iso} |-> col[k]]

\* update_one({data_iso}, {$set: {agendamentos: []}})
UpdateSetVazio(col, data_iso) ==
    IF data_iso \in DOMAIN col THEN [col EXCEPT ![data_iso] = <<>>] ELSE col

\* modified_count of an update_one: 1 when the matched document was changed by
\* the update, 0 when none matched or the update left it as it was.
ModifiedCount(col, depois) == IF depois # col THEN 1 ELSE 0

\* The documents matching {data_iso: {$gte: inicio, $lte: fim}}.
QueryRange(col, data_inicio_iso, data_fim_iso) ==
    { k \in DOMAIN col : StrLeq(data_inicio_iso, k) /\ StrLeq(k, data_fim_iso) }

\* Mutant of SortDataIso: .sort("data_iso", -1), descending.
RECURSIVE SortDataIso_Desc(_)
SortDataIso_Desc(keys) ==
    IF keys = {} THEN <<>>
    ELSE LET m == CHOOSE k \in keys : \A j \in keys : StrLeq(j, k)
         IN <<m>> \o SortDataIso_Desc(keys \ {m})

\* .sort("data_iso", 1): the matching keys in ascending order.
RECURSIVE SortDataIso(_)
SortDataIso(keys) ==
    IF keys = {} THEN <<>>
    ELSE LET m == CHOOSE k \in keys : \A j \in keys : StrLeq(k, j)
         IN <<m>> \o SortDataIso(keys \ {m})

\* ag['data_iso'] = dia_doc['data_iso'] for each element of one document.
ComData(s, data_iso) ==
    [i \in 1..Len(s) |->
        [hora |-> s[i].hora, nome_cachorro |-> s[i].nome_cachorro, data_iso |-> data_iso]]

RECURSIVE ListaFinal(_, _)
ListaFinal(col, documentos) ==
    IF documentos = <<>> THEN <<>>
    ELSE ComData(col[Head(documentos)], Head(documentos)) \o ListaFinal(col, Tail(documentos))

\* total_apagado: the sum of len(doc["agendamentos"]) over the documents found.
RECURSIVE TotalApagado(_, _)
TotalApagado(col, keys) ==
    IF keys = {} THEN 0
    ELSE LET k == CHOOSE x \in keys : TRUE
         IN Len(col[k]) + TotalApagado(col, keys \ {k})

\* Mutant of DeleteMany: the end of the range is excluded ($lt for $lte).
DeleteMany_ExclusiveEnd(col, data_inicio_iso, data_fim_iso) ==
    [k \in { x \in DOMAIN col : ~(StrLeq(data_inicio_iso, x) /\ StrLess(x, data_fim_iso)) } |-> col[k]]

\* delete_many(query)
DeleteMany(col, data_inicio_iso, data_fim_iso) ==
    [k \in DOMAIN col \ QueryRange(col, data_inicio_iso, data_fim_iso) |-> col[k]]

(***************************************************************************)
(* Handlers                                                                *)
(***************************************************************************)
Vazio == <<>>

\* The command a handler is running: its name and arguments.
Cmd(op, data_inicio_iso, data_fim_iso, hora_str, nome_cachorro, total) ==
    [op |-> op, ini |-> data_inicio_iso, fim |-> data_fim_iso, hora |-> hora_str,
     nome |-> nome_cachorro, total |-> total]

NoCmd == Cmd("none", Vazio, Vazio, Vazio, Vazio, 0)

\* What the last store function called by a handler gave back to its caller.
NoRet == <<"none">>
Returns(fn, val) == <<fn, "return", val>>
Raises(fn) == <<fn, "raise">>

\* Mutant of OnFailure: the exception is not caught.
OnFailure_Raise(fn) == Raises(fn)

\* The value each store function returns from "if not client" and from its
\* "except Exception" clause.
OnFailure(fn) ==
    CASE fn = "salvar_agendamento_no_db" -> Returns(fn, FALSE)
      [] fn = "verificar_conflito" -> Returns(fn, FALSE)
      [] fn = "apagar_agendamento_do_db" -> Returns(fn, FALSE)
      [] fn = "carregar_agendamentos_do_db" -> Returns(fn, <<>>)
      [] fn = "limpar_agendamentos_do_db" -> Returns(fn, 0)

RECURSIVE SumLen(_, _)
SumLen(col, keys) ==
    IF keys = {} THEN 0
    ELSE LET k == CHOOSE x \in keys : TRUE IN Len(col[k]) + SumLen(col, keys \ {k})

Stored == SumLen(agenda_collection, DOMAIN agenda_collection)

Init ==
    /\ client \in BOOLEAN
    /\ agenda_collection = [k \in {} |-> <<>>]
    /\ pc = [p \in Procs |-> "idle"]
    /\ cmd = [p \in Procs |-> NoCmd]
    /\ ret = [p \in Procs |-> NoRet]
    /\ erro = [p \in Procs |-> FALSE]
    /\ agora = Agora0
    /\ hora_sozinha = TRUE
    /\ update = [p \in Procs |-> <<>>]
    /\ tratou = [p \in Procs |-> <<>>]
    /\ analise = [p \in Procs |-> NoAnalise]
    /\ excecao = [p \in Procs |-> "nenhuma"]

InitOk == Init /\ client

\* One step of handler p: its position, the command in progress (its locals,
\* kept while a store function is between two calls), the last store function's
\* result and whether that function logged an error.
Step(p, pc1, cmd1, ret1, erro1) ==
    /\ pc' = [pc EXCEPT ![p] = pc1]
    /\ cmd' = [cmd EXCEPT ![p] = cmd1]
    /\ ret' = [ret EXCEPT ![p] = ret1]
    /\ erro' = [erro EXCEPT ![p] = erro1]
    /\ UNCHANGED <<client, agora, hora_sozinha, update, tratou, analise, excecao>>

(* tratar_novo_agendamento up to the conflict check: verificar_conflito's     *)
(* find_one; a conflict ends the command, no conflict goes on to save.        *)
CriarVerificar(p, nome, dt) ==
    LET data_iso == strftime_Ymd(dt)
        hora_str == strftime_HM(dt)
        conflito == FindOneElemMatch(agenda_collection, data_iso, hora_str, nome)
    IN /\ pc[p] = "idle"
       /\ client
       /\ Step(p, IF conflito THEN "done" ELSE "salvar",
               IF conflito THEN NoCmd ELSE Cmd("criar", data_iso, data_iso, hora_str, nome, 0),
               Returns("verificar_conflito", conflito), FALSE)
       /\ UNCHANGED agenda_collection

\* salvar_agendamento_no_db, first update_one: $push with upsert.
SalvarPush(p) ==
    /\ pc[p] = "salvar"
    /\ client
    /\ agenda_collection' =
          UpdatePushUpsert(agenda_collection, cmd[p].ini,
                           NovoAgendamento(cmd[p].hora, cmd[p].nome))
    /\ Step(p, "sort", cmd[p], NoRet, FALSE)

\* salvar_agendamento_no_db, second update_one: $sort; then return True.
SalvarSort(p) ==
    /\ pc[p] = "sort"
    /\ agenda_collection' \in UpdatePushSort(agenda_collection, cmd[p].ini)
    /\ Step(p, "done", NoCmd, Returns("salvar_agendamento_no_db", TRUE), FALSE)

\* verificar_conflito called on its own.
Verificar(p, data_iso, hora_str, nome) ==
    /\ pc[p] = "idle"
    /\ client
    /\ Step(p, "done", NoCmd,
            Returns("verificar_conflito",
                    FindOneElemMatch(agenda_collection, data_iso, hora_str, nome)),
            FALSE)
    /\ UNCHANGED agenda_collection

\* apagar_agendamento_do_db: one update_one with $pull.
Apagar(p, data_iso, hora_str, nome) ==
    LET depois == UpdatePull(agenda_collection, data_iso, hora_str, nome)
    IN /\ pc[p] = "idle"
       /\ client
       /\ agenda_collection' = depois
       /\ Step(p, "done", NoCmd,
               Returns("apagar_agendamento_do_db",
                       ModifiedCount(agenda_collection, depois) > 0),
               FALSE)

\* carregar_agendamentos_do_db: one find, sorted by data_iso, flattened.
Carregar(p, data_inicio, data_fim) ==
    LET ini == strftime_Ymd(data_inicio)
        fim == strftime_Ymd(data_fim)
        documentos == SortDataIso(QueryRange(agenda_collection, ini, fim))
    IN /\ pc[p] = "idle"
       /\ client
       /\ Step(p, "done", NoCmd,
               Returns("carregar_agendamentos_do_db",
                       ListaFinal(agenda_collection, documentos)),
               FALSE)
       /\ UNCHANGED agenda_collection

\* limpar_agendamentos_do_db, data_inicio_iso == data_fim_iso: one update_one.
LimparDia(p, data) ==
    LET data_iso == strftime_Ymd(data)
        depois == UpdateSetVazio(agenda_collection, data_iso)
    IN /\ pc[p] = "idle"
       /\ client
       /\ agenda_collection' = depois
       /\ Step(p, "done", NoCmd,
               Returns("limpar_agendamentos_do_db",
                       ModifiedCount(agenda_collection, depois)),
               FALSE)

\* limpar_agendamentos_do_db, a range: the find that counts.
LimparFind(p, data_inicio, data_fim) ==
    LET ini == strftime_Ymd(data_inicio)
        fim == strftime_Ymd(data_fim)
    IN /\ pc[p] = "idle"
       /\ client
       /\ ini # fim
       /\ Step(p, "delete_many",
               Cmd("limpar", ini, fim, Vazio, Vazio,
                   TotalApagado(agenda_collection, QueryRange(agenda_collection, ini, fim))),
               NoRet, FALSE)
       /\ UNCHANGED agenda_collection

\* limpar_agendamentos_do_db, a range: delete_many, then return total_apagado.
LimparDelete(p) ==
    /\ pc[p] = "delete_many"
    /\ agenda_collection' = DeleteMany(agenda_collection, cmd[p].ini, cmd[p].fim)
    /\ Step(p, "done", NoCmd, Returns("limpar_agendamentos_do_db", cmd[p].total), FALSE)

\* The handler has answered; the next message starts from nothing.
Reset(p) ==
    /\ pc[p] = "done"
    /\ Step(p, "idle", NoCmd, NoRet, FALSE)
    /\ UNCHANGED agenda_collection

(***************************************************************************)
(* The same calls when the storage is unavailable: client is None (the     *)
(* function returns before its try, nothing is logged) or the MongoDB call *)
(* raises (the except clause logs and returns).                            *)
(***************************************************************************)
\* verificar_conflito fails inside the Create flow: it returns False, and the
\* flow goes on to save.
CriarVerificarFalha(p, nome, dt) ==
    /\ pc[p] = "idle"
    /\ Step(p, "salvar", Cmd("criar", strftime_Ymd(dt), strftime_Ymd(dt), strftime_HM(dt), nome, 0),
            OnFailure("verificar_conflito"), client)
    /\ UNCHANGED agenda_collection

\* salvar_agendamento_no_db: client is None, or the first update_one raises.
SalvarPushFalha(p) ==
    /\ pc[p] = "salvar"
    /\ Step(p, "done", NoCmd, OnFailure("salvar_agendamento_no_db"), client)
    /\ UNCHANGED agenda_collection

\* salvar_agendamento_no_db: the second update_one raises, after the first was applied.
SalvarSortFalha(p) ==
    /\ pc[p] = "sort"
    /\ Step(p, "done", NoCmd, OnFailure("salvar_agendamento_no_db"), TRUE)
    /\ UNCHANGED agenda_collection

\* The functions of one storage call fail the same way whatever their arguments.
VerificarFalha(p) ==
    /\ pc[p] = "idle"
    /\ Step(p, "done", NoCmd, OnFailure("verificar_conflito"), client)
    /\ UNCHANGED agenda_collection

ApagarFalha(p) ==
    /\ pc[p] = "idle"
    /\ Step(p, "done", NoCmd, OnFailure("apagar_agendamento_do_db"), client)
    /\ UNCHANGED agenda_collection

CarregarFalha(p) ==
    /\ pc[p] = "idle"
    /\ Step(p, "done", NoCmd, OnFailure("carregar_agendamentos_do_db"), client)
    /\ UNCHANGED agenda_collection

\* limpar_agendamentos_do_db: client is None, or its first call (the update_one
\* of a single day, the find of a range) raises.
LimparFalha(p) ==
    /\ pc[p] = "idle"
    /\ Step(p, "done", NoCmd, OnFailure("limpar_agendamentos_do_db"), client)
    /\ UNCHANGED agenda_collection

\* limpar_agendamentos_do_db, a range: delete_many raises after the count.
LimparDeleteFalha(p) ==
    /\ pc[p] = "delete_many"
    /\ Step(p, "done", NoCmd, OnFailure("limpar_agendamentos_do_db"), TRUE)
    /\ UNCHANGED agenda_collection

(***************************************************************************)
(* The messages: handle_text and the handlers it calls.  A handler runs    *)
(* only with the storage connected (the webhook answers 500 otherwise).    *)
(* One step is a handler from the arrival of its message up to and         *)
(* including its first MongoDB call, or up to its reply when it makes none.*)
(***************************************************************************)
\* The handler handle_text calls for a message text; "return" when it calls none.
handle_text(texto_msg) ==
    LET texto == str_strip(str_lower(texto_msg))
    IN IF texto_msg = <<>> THEN "return"
       ELSE IF texto = w_ajuda THEN "comando_ajuda"
       ELSE IF str_startswith(texto, w_agenda) THEN "tratar_ver_agenda"
       ELSE IF str_startswith(texto, w_apagar) THEN "tratar_apagar_agendamento"
       ELSE IF str_startswith(texto, w_limpar) THEN "tratar_limpar_agenda"
       ELSE "tratar_novo_agendamento"

\* Handler p is free, the storage is connected and handle_text calls fn for texto.
Chama(p, texto, fn) == pc[p] = "idle" /\ client /\ handle_text(texto) = fn

\* The handler fn called for texto by handler p gets the analysis an and goes to pc1.
Recebe(p, texto, fn, an, pc1, cmd1, ret1) ==
    /\ update' = [update EXCEPT ![p] = texto]
    /\ tratou' = [tratou EXCEPT ![p] = <<fn>>]
    /\ analise' = [analise EXCEPT ![p] = an]
    /\ excecao' = [excecao EXCEPT ![p] = "nenhuma"]
    /\ pc' = [pc EXCEPT ![p] = pc1]
    /\ cmd' = [cmd EXCEPT ![p] = cmd1]
    /\ ret' = [ret EXCEPT ![p] = ret1]
    /\ erro' = [erro EXCEPT ![p] = FALSE]
    /\ UNCHANGED <<client, agora, hora_sozinha>>

\* handle_text returns at once: the update has no text.
SemTexto(p) ==
    /\ pc[p] = "idle"
    /\ client
    /\ update' = [update EXCEPT ![p] = <<>>]
    /\ tratou' = [tratou EXCEPT ![p] = <<>>]
    /\ analise' = [analise EXCEPT ![p] = NoAnalise]
    /\ excecao' = [excecao EXCEPT ![p] = "nenhuma"]
    /\ UNCHANGED <<client, agenda_collection, pc, cmd, ret, erro, agora, hora_sozinha>>

comando_ajuda(p, texto) ==
    /\ Chama(p, texto, "comando_ajuda")
    /\ Recebe(p, texto, "comando_ajuda", NoAnalise, "done", NoCmd, NoRet)
    /\ UNCHANGED agenda_collection

\* tratar_novo_agendamento up to verificar_conflito's find_one.
tratar_novo_agendamento(p, texto) ==
    LET texto_completo == texto
        r == analisar_agendamento(texto_completo, agora, hora_sozinha)
        an == Analise("analisar_agendamento", texto_completo, r)
        nome_cachorro == r[1]
        data_iso == strftime_Ymd(r[2])
        hora_str == strftime_HM(r[2])
        conflito == FindOneElemMatch(agenda_collection, data_iso, hora_str, nome_cachorro)
    IN /\ Chama(p, texto, "tratar_novo_agendamento")
       /\ UNCHANGED agenda_collection
       /\ IF r[3] # ""
          THEN Recebe(p, texto, "tratar_novo_agendamento", an, "done", NoCmd, NoRet)
          ELSE Recebe(p, texto, "tratar_novo_agendamento", an,
                      IF conflito THEN "done" ELSE "salvar",
                      IF conflito THEN NoCmd
                      ELSE Cmd("criar", data_iso, data_iso, hora_str, nome_cachorro, 0),
                      Returns("verificar_conflito", conflito))

\* tratar_apagar_agendamento up to apagar_agendamento_do_db's update_one.
tratar_apagar_agendamento(p, texto) ==
    LET texto_completo ==
            str_strip(str_replace(str_replace(str_lower(texto),
                                              str_join(<<w_apagar, w_agendamento>>)),
                                  w_apagar))
        r == analisar_agendamento(texto_completo, agora, hora_sozinha)
        an == Analise("analisar_agendamento", texto_completo, r)
        depois == UpdatePull(agenda_collection, strftime_Ymd(r[2]), strftime_HM(r[2]), r[1])
    IN /\ Chama(p, texto, "tratar_apagar_agendamento")
       /\ IF r[3] # ""
          THEN /\ Recebe(p, texto, "tratar_apagar_agendamento", an, "done", NoCmd, NoRet)
               /\ UNCHANGED agenda_collection
          ELSE /\ Recebe(p, texto, "tratar_apagar_agendamento", an, "done", NoCmd,
                         Returns("apagar_agendamento_do_db",
                                 ModifiedCount(agenda_collection, depois) > 0))
               /\ agenda_collection' = depois

\* tratar_ver_agenda up to carregar_agendamentos_do_db's find.
tratar_ver_agenda(p, texto) ==
    LET texto_completo == texto
        r == analisar_consulta_agenda(texto_completo, agora, hora_sozinha)
        an == Analise("analisar_consulta_agenda", texto_completo, r)
        documentos ==
            SortDataIso(QueryRange(agenda_collection, strftime_Ymd(r[1]), strftime_Ymd(r[2])))
    IN /\ Chama(p, texto, "tratar_ver_agenda")
       /\ UNCHANGED agenda_collection
       /\ IF r[1] = None
          THEN Recebe(p, texto, "tratar_ver_agenda", an, "done", NoCmd, NoRet)
          ELSE Recebe(p, texto, "tratar_ver_agenda", an, "done", NoCmd,
                      Returns("carregar_agendamentos_do_db",
                              ListaFinal(agenda_collection, documentos)))

\* tratar_limpar_agenda up to limpar_agendamentos_do_db's first call: the
\* update_one of a single day, the find of a range.
tratar_limpar_agenda(p, texto) ==
    LET texto_completo == str_lower(texto)
        entrada == str_replace(texto_completo, w_limpar \o <<" ">>)
        r == analisar_consulta_agenda(entrada, agora, hora_sozinha)
        an == Analise("analisar_consulta_agenda", entrada, r)
        ini == strftime_Ymd(r[1])
        fim == strftime_Ymd(r[2])
        depois == UpdateSetVazio(agenda_collection, ini)
    IN /\ Chama(p, texto, "tratar_limpar_agenda")
       /\ IF r[1] = None
          THEN /\ Recebe(p, texto, "tratar_limpar_agenda", an, "done", NoCmd, NoRet)
               /\ UNCHANGED agenda_collection
          ELSE IF ini = fim
          THEN /\ Recebe(p, texto, "tratar_limpar_agenda", an, "done", NoCmd,
                         Returns("limpar_agendamentos_do_db",
                                 ModifiedCount(agenda_collection, depois)))
               /\ agenda_collection' = depois
          ELSE /\ Recebe(p, texto, "tratar_limpar_agenda", an, "delete_many",
                         Cmd("limpar", ini, fim, Vazio, Vazio,
                             TotalApagado(agenda_collection,
                                          QueryRange(agenda_collection, ini, fim))),
                         NoRet)
               /\ UNCHANGED agenda_collection

\* The handler's reply_text succeeds and handle_text returns.
Responder(p) ==
    /\ pc[p] = "done"
    /\ pc' = [pc EXCEPT ![p] = "idle"]
    /\ cmd' = [cmd EXCEPT ![p] = NoCmd]
    /\ ret' = [ret EXCEPT ![p] = NoRet]
    /\ erro' = [erro EXCEPT ![p] = FALSE]
    /\ update' = [update EXCEPT ![p] = <<>>]
    /\ tratou' = [tratou EXCEPT ![p] = <<>>]
    /\ analise' = [analise EXCEPT ![p] = NoAnalise]
    /\ UNCHANGED <<client, agenda_collection, agora, hora_sozinha, excecao>>

\* A call of the handler raises before its first storage call (the parser, the
\* analysis): handle_text's "except Exception" clause is entered.
AnaliseRaises(p, texto) ==
    /\ Chama(p, texto, handle_text(texto))
    /\ Recebe(p, texto, handle_text(texto), NoAnalise, "except", NoCmd, NoRet)
    /\ UNCHANGED agenda_collection

\* The handler's reply_text (or the formatting before it) raises:
\* handle_text's "except Exception" clause is entered.
HandlerRaises(p) ==
    /\ pc[p] = "done"
    /\ Step(p, "except", NoCmd, NoRet, FALSE)
    /\ UNCHANGED agenda_collection

\* What the except clause of handle_text ends in: "tratada" when its own
\* reply_text succeeds, "escapou" when that call raises, which leaves handle_text.
FimExcept(p, fim) ==
    /\ pc[p] = "except"
    /\ pc' = [pc EXCEPT ![p] = "idle"]
    /\ excecao' = [excecao EXCEPT ![p] = fim]
    /\ update' = [update EXCEPT ![p] = <<>>]
    /\ tratou' = [tratou EXCEPT ![p] = <<>>]
    /\ analise' = [analise EXCEPT ![p] = NoAnalise]
    /\ UNCHANGED <<client, agenda_collection, cmd, ret, erro, agora, hora_sozinha>>

ExceptReply(p) == FimExcept(p, "tratada")

ExceptReplyRaises(p) == FimExcept(p, "escapou")

\* analisar_agendamento and analisar_consulta_agenda applied on their own.
AnalisarAgendamento(p) ==
    /\ analise[p] = NoAnalise
    /\ analise' = [analise EXCEPT ![p] =
                      Analise("analisar_agendamento", update[p],
                              analisar_agendamento(update[p], agora, hora_sozinha))]
    /\ UNCHANGED <<client, agenda_collection, pc, cmd, ret, erro, agora, hora_sozinha,
                   update, tratou, excecao>>

AnalisarConsulta(p) ==
    /\ analise[p] = NoAnalise
    /\ analise' = [analise EXCEPT ![p] =
                      Analise("analisar_consulta_agenda", update[p],
                              analisar_consulta_agenda(update[p], agora, hora_sozinha))]
    /\ UNCHANGED <<client, agenda_collection, pc, cmd, ret, erro, agora, hora_sozinha,
                   update, tratou, excecao>>

(***************************************************************************)
(* Specifications                                                          *)
(***************************************************************************)
\* The inputs of a specification: the dates, the subjects of Create commands,
\* the subjects handed to the store functions, and the number of stored
\* appointments from which no further Create command is taken.
Entradas ==
    [datas |-> Datas, nomesCriar |-> NomesCriar, nomes |-> Nomes, max |-> MaxAgendamentos]

\* The inputs of concurrent handlers: two dates and one subject in two spellings.
EntradasConc ==
    [datas |-> { d \in Datas : d.day <= 10 }, nomesCriar |-> {Rex, rex}, nomes |-> {Rex, rex},
     max |-> MaxAgendamentosConc]

\* The inputs where storage calls may fail: two dates, one subject in three spellings.
EntradasFalha ==
    [datas |-> { d \in Datas : d.day <= 10 }, nomesCriar |-> {Rex, rex},
     nomes |-> {Rex, rex, RexEspaco}, max |-> MaxAgendamentos]

\* The date ranges the callers pass: data_inicio not after data_fim.
Periodos(E) ==
    { r \in E.datas \X E.datas : StrLeq(strftime_Ymd(r[1]), strftime_Ymd(r[2])) }

IsoDe(E) == { strftime_Ymd(d) : d \in E.datas }

HorasStr == { strftime_HM(h) : h \in Horarios }

DataHoras(E) ==
    { [year |-> d.year, month |-> d.month, day |-> d.day,
       hour |-> h.hour, minute |-> h.minute] : d \in E.datas, h \in Horarios }

\* The steps of handler p while every storage call succeeds.
ProcOk(p, E) ==
    \/ \E nome \in E.nomesCriar, dt \in DataHoras(E) :
          Stored < E.max /\ CriarVerificar(p, nome, dt)
    \/ SalvarPush(p)
    \/ SalvarSort(p)
    \/ \E d \in IsoDe(E), h \in HorasStr, nome \in E.nomes : Verificar(p, d, h, nome)
    \/ \E d \in IsoDe(E), h \in HorasStr, nome \in E.nomes : Apagar(p, d, h, nome)
    \/ \E r \in Periodos(E) : Carregar(p, r[1], r[2])
    \/ \E d \in E.datas : LimparDia(p, d)
    \/ \E r \in Periodos(E) : LimparFind(p, r[1], r[2])
    \/ LimparDelete(p)
    \/ Reset(p)

\* The steps of handler p in which a storage call fails.
ProcFalha(p, E) ==
    \/ \E nome \in E.nomesCriar, dt \in DataHoras(E) :
          Stored < E.max /\ CriarVerificarFalha(p, nome, dt)
    \/ SalvarPushFalha(p)
    \/ SalvarSortFalha(p)
    \/ VerificarFalha(p)
    \/ ApagarFalha(p)
    \/ CarregarFalha(p)
    \/ LimparFalha(p)
    \/ LimparDeleteFalha(p)

\* One handler at a time, storage available and every call succeeds.
NextSeq == ProcOk("h1", Entradas)

SpecSeq == InitOk /\ [][NextSeq]_vars

\* One handler at a time, storage calls may fail.
NextFalha == ProcOk("h1", EntradasFalha) \/ ProcFalha("h1", EntradasFalha)

SpecFalha == Init /\ [][NextFalha]_vars

\* Concurrent handlers, storage available and every call succeeds.
NextConc == \E p \in Procs : ProcOk(p, EntradasConc)

SpecConc == InitOk /\ [][NextConc]_vars

\* Concurrent handlers, storage calls may fail.
Next == \E p \in Procs : ProcOk(p, EntradasConc) \/ ProcFalha(p, EntradasConc)

Spec == Init /\ [][Next]_vars

\* The steps of handler p driven by messages.
ProcMsg(p) ==
    \/ \E texto \in Mensagens : comando_ajuda(p, texto)
    \/ \E texto \in Mensagens : tratar_ver_agenda(p, texto)
    \/ \E texto \in Mensagens : tratar_apagar_agendamento(p, texto)
    \/ \E texto \in Mensagens : tratar_limpar_agenda(p, texto)
    \/ \E texto \in Mensagens :
          Stored < MaxAgendamentosMsg /\ tratar_novo_agendamento(p, texto)
    \/ SemTexto(p)
    \/ SalvarPush(p)
    \/ SalvarSort(p)
    \/ LimparDelete(p)
    \/ Responder(p)
    \/ \E texto \in Mensagens : AnaliseRaises(p, texto)
    \/ HandlerRaises(p)
    \/ ExceptReply(p)
    \/ ExceptReplyRaises(p)

\* The state before the first message: storage connected, the clock at Agora0,
\* the parser reading a time on its own or not.
InitMsg ==
    /\ client = TRUE
    /\ agenda_collection = [k \in {} |-> <<>>]
    /\ pc = [p \in Procs |-> "idle"]
    /\ cmd = [p \in Procs |-> NoCmd]
    /\ ret = [p \in Procs |-> NoRet]
    /\ erro = [p \in Procs |-> FALSE]
    /\ agora = Agora0
    /\ hora_sozinha \in BOOLEAN
    /\ update = [p \in Procs |-> <<>>]
    /\ tratou = [p \in Procs |-> <<>>]
    /\ analise = [p \in Procs |-> NoAnalise]
    /\ excecao = [p \in Procs |-> "nenhuma"]

\* One handler at a time, driven by messages; a reply may fail.
NextMsg == ProcMsg("h1")

SpecMsg == InitMsg /\ [][NextMsg]_vars

\* A text and a clock for the analysis functions: a period phrase on any of the
\* days, or a text of up to MaxPalavras words at Agora0.
InitAnalise ==
    /\ client = TRUE
    /\ agenda_collection = [k \in {} |-> <<>>]
    /\ pc = [p \in Procs |-> "idle"]
    /\ cmd = [p \in Procs |-> NoCmd]
    /\ ret = [p \in Procs |-> NoRet]
    /\ erro = [p \in Procs |-> FALSE]
    /\ hora_sozinha \in BOOLEAN
    /\ tratou = [p \in Procs |-> <<>>]
    /\ analise = [p \in Procs |-> NoAnalise]
    /\ excecao = [p \in Procs |-> "nenhuma"]
    /\ \/ /\ agora \in Agoras
          /\ \E t \in Frases : update = [p \in Procs |-> IF p = "h1" THEN t ELSE <<>>]
       \/ /\ agora = Agora0
          /\ \E t \in TextosAgendamento :
                update = [p \in Procs |-> IF p = "h1" THEN t ELSE <<>>]

NextAnalise == AnalisarAgendamento("h1") \/ AnalisarConsulta("h1")

SpecAnalise == InitAnalise /\ [][NextAnalise]_vars

(***************************************************************************)
(* What the specification says, in its own terms                           *)
(***************************************************************************)
\* The time of day an "HH:MM" string names, in minutes after midnight.
Minutes(hora_str) ==
    ((hora_str[1] - 48) * 10 + (hora_str[2] - 48)) * 60
        + (hora_str[4] - 48) * 10 + (hora_str[5] - 48)

\* A sequence of appointments is sorted ascending by time of day.
SortedByTime(s) == \A i, j \in 1..Len(s) : i < j => Minutes(s[i].hora) <= Minutes(s[j].hora)

\* Every bucket of the store is sorted ascending by time of day.
AllBucketsSorted ==
    \A k \in DOMAIN agenda_collection : SortedByTime(agenda_collection[k])

\* A subject name with its letters in lower case.
Lower(nome) == [i \in 1..Len(nome) |-> IF nome[i] = "R" THEN "r" ELSE IF nome[i] = "B" THEN "b" ELSE nome[i]]

\* Two subject names equal as whole strings, letter case ignored.
SameSubject(a, b) == Lower(a) = Lower(b)

\* The result of handler p's last call, when it is a value fn returned.
Returned(p, fn) == ret[p][1] = fn /\ ret[p][2] = "return"

\* In this step handler p, idle before, calls fn and holds its result after.
Completes(p, fn) == pc[p] = "idle" /\ ret'[p][1] = fn

\* The entries of one date in a query result are ascending by time of day.
QuerySortedPerDate(lista) ==
    \A i, j \in 1..Len(lista) :
        (i < j /\ lista[i].data_iso = lista[j].data_iso)
            => Minutes(lista[i].hora) <= Minutes(lista[j].hora)

(***************************************************************************)
(* C1                                                                      *)
(***************************************************************************)
\* C1: no reader running beside an insert observes a bucket that is not sorted
\* ascending by time: every result of carregar_agendamentos_do_db lists the
\* entries of each date in ascending time order.
C1_ReaderSeesSortedBuckets ==
    \A p \in Procs :
        Returned(p, "carregar_agendamentos_do_db") => QuerySortedPerDate(ret[p][3])

(***************************************************************************)
(* C2                                                                      *)
(***************************************************************************)
\* C2: whatever the interleaving of Create commands, no bucket holds two entries
\* with equal time and case-insensitively equal subject.
C2_NoDuplicateEntry ==
    \A k \in DOMAIN agenda_collection :
        \A i, j \in 1..Len(agenda_collection[k]) :
            (/\ i # j
             /\ agenda_collection[k][i].hora = agenda_collection[k][j].hora
             /\ SameSubject(agenda_collection[k][i].nome_cachorro,
                            agenda_collection[k][j].nome_cachorro)) => FALSE

(***************************************************************************)
(* C3                                                                      *)
(***************************************************************************)
\* C3: in a sequence of store mutations applied one after another, each with its
\* storage calls succeeding, every bucket is sorted ascending by time of day
\* whenever no insert is between its append and its sort, so after every
\* completed mutation.
C3_SortedAfterEveryMutation ==
    (\A p \in Procs : pc[p] # "sort") => AllBucketsSorted

\* An insert has completed on a bucket that holds three appointments at two or
\* more different times.
C3_Witness ==
    /\ pc["h1"] = "done"
    /\ ret["h1"] = Returns("salvar_agendamento_no_db", TRUE)
    /\ \E k \in DOMAIN agenda_collection :
          /\ Len(agenda_collection[k]) = 3
          /\ agenda_collection[k][1].hora # agenda_collection[k][3].hora

(***************************************************************************)
(* C4                                                                      *)
(***************************************************************************)
\* The bucket of data_iso holds an entry at exactly hora_str whose subject is
\* nome as a whole string, letter case ignored.
ConflictExists(col, data_iso, hora_str, nome) ==
    /\ data_iso \in DOMAIN col
    /\ \E i \in 1..Len(col[data_iso]) :
          /\ col[data_iso][i].hora = hora_str
          /\ SameSubject(col[data_iso][i].nome_cachorro, nome)

Dia9 == strftime_Ymd([year |-> 2024, month |-> 1, day |-> 9])
H1500 == strftime_HM([hour |-> 15, minute |-> 0])
SoRex1500 == <<[hora |-> H1500, nome_cachorro |-> Rex]>>

\* C4: with storage available, verificar_conflito returns true exactly when the
\* bucket holds an entry of equal time and case-insensitively equal whole
\* subject, called on its own or by the Create flow; with only Rex at 15:00
\* stored, "rex" at 15:00 is a conflict and "Rex " (trailing space) is not.
C4_HasConflictExact ==
    [][ Completes("h1", "verificar_conflito") =>
        /\ \A d \in DatasIso, h \in HorasStr, nome \in Nomes :
              Verificar("h1", d, h, nome)
                  => ret'["h1"] = Returns("verificar_conflito",
                                          ConflictExists(agenda_collection, d, h, nome))
        /\ \A nome \in NomesCriar, dt \in DataHoras(Entradas) :
              CriarVerificar("h1", nome, dt)
                  => ret'["h1"] = Returns("verificar_conflito",
                                          ConflictExists(agenda_collection, strftime_Ymd(dt),
                                                         strftime_HM(dt), nome))
        /\ (Dia9 \in DOMAIN agenda_collection /\ agenda_collection[Dia9] = SoRex1500)
              => /\ Verificar("h1", Dia9, H1500, rex)
                      => ret'["h1"] = Returns("verificar_conflito", TRUE)
                 /\ Verificar("h1", Dia9, H1500, RexEspaco)
                      => ret'["h1"] = Returns("verificar_conflito", FALSE)
      ]_vars

\* verificar_conflito has reported a conflict on a store that holds only Rex at 15:00.
C4_Witness ==
    /\ pc["h1"] = "done"
    /\ ret["h1"] = Returns("verificar_conflito", TRUE)
    /\ DOMAIN agenda_collection = {Dia9}
    /\ agenda_collection[Dia9] = SoRex1500

(***************************************************************************)
(* C5                                                                      *)
(***************************************************************************)
\* A single-day clear of data_iso leaves every bucket in place, that of data_iso empty.
EmptiedInPlace(antes, depois, data_iso) ==
    /\ DOMAIN depois = DOMAIN antes
    /\ \A k \in DOMAIN antes : depois[k] = IF k = data_iso THEN <<>> ELSE antes[k]

\* C5 as stated: clear_range(D, D) empties D's bucket in place and returns 1
\* whenever a bucket for D exists, an already empty one included, and 0 when
\* none exists.
C5_ReturnsOneIfBucketExists ==
    [][ Completes("h1", "limpar_agendamentos_do_db") => \A d \in Datas :
          LimparDia("h1", d)
              => /\ EmptiedInPlace(agenda_collection, agenda_collection', strftime_Ymd(d))
                 /\ ret'["h1"] = Returns("limpar_agendamentos_do_db",
                                     IF strftime_Ymd(d) \in DOMAIN agenda_collection
                                     THEN 1 ELSE 0)
      ]_vars

\* C5 amended: clear_range(D, D) empties D's bucket in place and returns 1 when
\* a bucket for D exists and holds at least one appointment (however many),
\* and 0 when no bucket exists or the bucket is already empty.
C5_ReturnsOneIfBucketEmptied ==
    [][ Completes("h1", "limpar_agendamentos_do_db") => \A d \in Datas :
          LimparDia("h1", d)
              => /\ EmptiedInPlace(agenda_collection, agenda_collection', strftime_Ymd(d))
                 /\ ret'["h1"] = Returns("limpar_agendamentos_do_db",
                                     IF /\ strftime_Ymd(d) \in DOMAIN agenda_collection
                                        /\ Len(agenda_collection[strftime_Ymd(d)]) > 0
                                     THEN 1 ELSE 0)
      ]_vars

\* Every date has a bucket, so the last clear was of one day and of an existing
\* bucket; it found the bucket already empty and returned 0.
C5_Witness ==
    /\ pc["h1"] = "done"
    /\ ret["h1"] = Returns("limpar_agendamentos_do_db", 0)
    /\ DOMAIN agenda_collection = DatasIso
    /\ Stored = 0

(***************************************************************************)
(* C6                                                                      *)
(***************************************************************************)
\* The day an ISO date string names, as a number that orders the calendar.
IsoDayNumber(iso) ==
    LET y == (iso[1] - 48) * 1000 + (iso[2] - 48) * 100 + (iso[3] - 48) * 10 + (iso[4] - 48)
        m == (iso[6] - 48) * 10 + (iso[7] - 48)
        d == (iso[9] - 48) * 10 + (iso[10] - 48)
    IN (y * 12 + m) * 31 + d

\* The buckets of col whose date lies in the inclusive range [ini, fim].
BucketsInRange(col, ini, fim) ==
    { k \in DOMAIN col :
        IsoDayNumber(ini) <= IsoDayNumber(k) /\ IsoDayNumber(k) <= IsoDayNumber(fim) }

\* The number of appointments held by the buckets in keys.
CountIn(col, keys) ==
    Cardinality(UNION { { <<k, i>> : i \in 1..Len(col[k]) } : k \in keys })

\* C6: clear_range(D1, D2) with D1 < D2 deletes every bucket dated in [D1, D2],
\* leaves every other bucket unchanged and returns the number of appointments
\* the deleted buckets held.
C6_ClearRangeDeletesAndCounts ==
    [][ LimparDelete("h1")
          => LET ini == cmd["h1"].ini
                 fim == cmd["h1"].fim
                 gone == BucketsInRange(agenda_collection, ini, fim)
             IN /\ IsoDayNumber(ini) < IsoDayNumber(fim)
                /\ DOMAIN agenda_collection' = DOMAIN agenda_collection \ gone
                /\ \A k \in DOMAIN agenda_collection' :
                      agenda_collection'[k] = agenda_collection[k]
                /\ ret'["h1"] = Returns("limpar_agendamentos_do_db",
                                        CountIn(agenda_collection, gone))
      ]_vars

\* A clear of a range has removed two appointments and left one, outside the range.
C6_Witness ==
    /\ pc["h1"] = "done"
    /\ ret["h1"] = Returns("limpar_agendamentos_do_db", 2)
    /\ Stored = 1

(***************************************************************************)
(* C7                                                                      *)
(***************************************************************************)
\* The day a date names, on the scale of IsoDayNumber.
DayNumber(d) == (d.year * 12 + d.month) * 31 + d.day

SemData(e) == [hora |-> e.hora, nome_cachorro |-> e.nome_cachorro]

\* The entries of lista that carry the date data_iso, in lista's order, without the date.
EntriesOf(lista, data_iso) ==
    LET daData(e) == e.data_iso = data_iso
        sel == SelectSeq(lista, daData)
    IN [i \in 1..Len(sel) |-> SemData(sel[i])]

\* lista is what query_range(inicio, fim) must return on col.
QueryResultExact(col, inicio, fim, lista) ==
    LET inRange(k) == DayNumber(inicio) <= IsoDayNumber(k) /\ IsoDayNumber(k) <= DayNumber(fim)
    IN /\ \A i \in 1..Len(lista) :
              lista[i].data_iso \in DOMAIN col /\ inRange(lista[i].data_iso)
       /\ \A k \in DOMAIN col : inRange(k) => EntriesOf(lista, k) = col[k]
       /\ \A i, j \in 1..Len(lista) :
              i < j => IsoDayNumber(lista[i].data_iso) <= IsoDayNumber(lista[j].data_iso)

\* C7: with storage available, query_range(start, end) returns exactly the
\* entries of the buckets dated in [start, end], by bucket date ascending and
\* within a date in the bucket's stored order, each carrying its bucket's date.
C7_QueryRangeExact ==
    [][ Completes("h1", "carregar_agendamentos_do_db") => \A r \in Periodos(Entradas) :
          Carregar("h1", r[1], r[2])
              => /\ ret'["h1"][1] = "carregar_agendamentos_do_db"
                 /\ ret'["h1"][2] = "return"
                 /\ QueryResultExact(agenda_collection, r[1], r[2], ret'["h1"][3])
      ]_vars

\* A query has returned entries of two dates while a third date's entry stayed out.
C7_Witness ==
    /\ pc["h1"] = "done"
    /\ Returned("h1", "carregar_agendamentos_do_db")
    /\ Len(ret["h1"][3]) = 2
    /\ ret["h1"][3][1].data_iso # ret["h1"][3][2].data_iso
    /\ Stored = 3

(***************************************************************************)
(* C8                                                                      *)
(***************************************************************************)
\* lista is the result of a query that found entries of one date only.
OneDate(lista) == \A i, j \in 1..Len(lista) : lista[i].data_iso = lista[j].data_iso

\* C8 as stated: after Create commands into a date, taken one at a time and all
\* successful, query_range(D, D) returns entries strictly ascending by time.
C8_StrictlyAscending ==
    \A p \in Procs :
        (Returned(p, "carregar_agendamentos_do_db") /\ OneDate(ret[p][3]))
            => \A i \in 1..(Len(ret[p][3]) - 1) :
                  Minutes(ret[p][3][i].hora) < Minutes(ret[p][3][i + 1].hora)

\* C8 amended: after Create commands into a date, taken one at a time and all
\* successful, query_range(D, D) returns entries ascending by time, each
\* entry's time greater than or equal to the previous entry's.
C8_AscendingNotStrictly ==
    \A p \in Procs :
        (Returned(p, "carregar_agendamentos_do_db") /\ OneDate(ret[p][3]))
            => \A i \in 1..(Len(ret[p][3]) - 1) :
                  Minutes(ret[p][3][i].hora) <= Minutes(ret[p][3][i + 1].hora)

\* A query of one date has returned three entries, two of them at the same time.
C8_Witness ==
    /\ pc["h1"] = "done"
    /\ Returned("h1", "carregar_agendamentos_do_db")
    /\ OneDate(ret["h1"][3])
    /\ Len(ret["h1"][3]) = 3
    /\ ret["h1"][3][1].hora # ret["h1"][3][3].hora
    /\ \E i \in 1..2 : ret["h1"][3][i].hora = ret["h1"][3][i + 1].hora

(***************************************************************************)
(* C9                                                                      *)
(***************************************************************************)
\* The entries of s that delete_one(_, hora_str, nome) must keep, in order.
KeptEntries(s, hora_str, nome) ==
    LET fica(e) == ~(e.hora = hora_str /\ SameSubject(e.nome_cachorro, nome))
    IN SelectSeq(s, fica)

\* C9: with storage available, delete_one(date, time, subject) removes every
\* entry of date's bucket of equal time and case-insensitively equal subject,
\* leaves the other entries and the other buckets as they were, and returns
\* true exactly when it removed an entry.
C9_DeleteOneExact ==
    [][ Completes("h1", "apagar_agendamento_do_db") =>
        \A d \in IsoDe(EntradasFalha), h \in HorasStr, nome \in EntradasFalha.nomes :
          Apagar("h1", d, h, nome)
              => /\ DOMAIN agenda_collection' = DOMAIN agenda_collection
                 /\ \A k \in DOMAIN agenda_collection :
                       agenda_collection'[k] =
                           IF k = d THEN KeptEntries(agenda_collection[k], h, nome)
                           ELSE agenda_collection[k]
                 /\ ret'["h1"] = Returns("apagar_agendamento_do_db",
                                         ConflictExists(agenda_collection, d, h, nome))
      ]_vars

\* A delete has removed an entry and left another one in the store.
C9_Witness ==
    /\ pc["h1"] = "done"
    /\ ret["h1"] = Returns("apagar_agendamento_do_db", TRUE)
    /\ Stored > 0

(***************************************************************************)
(* C10                                                                     *)
(***************************************************************************)
\* The store function whose result handler p holds found the storage
\* unavailable: client is None, or a MongoDB call of it raised (and was logged).
StorageFailed(p) == ret[p] # NoRet /\ (erro[p] \/ ~client)

\* C10: a store function that finds the storage unavailable, or whose storage
\* call fails, returns false (upsert_append_sorted, has_conflict, delete_one),
\* the empty sequence (query_range) or 0 (clear_range); no store function
\* raises to its caller.
C10_FailsClosed ==
    \A p \in Procs :
        /\ ret[p] # NoRet => ret[p][2] = "return"
        /\ StorageFailed(p) =>
              /\ ret[p][1] \in {"salvar_agendamento_no_db", "verificar_conflito",
                                "apagar_agendamento_do_db"} => ret[p][3] = FALSE
              /\ ret[p][1] = "carregar_agendamentos_do_db" => ret[p][3] = <<>>
              /\ ret[p][1] = "limpar_agendamentos_do_db" => ret[p][3] = 0

\* An insert has logged an error and returned false; the bucket it appended to
\* is unsorted, so the call that failed was its second one.
C10_Witness ==
    /\ pc["h1"] = "done"
    /\ client
    /\ erro["h1"]
    /\ ret["h1"] = <<"salvar_agendamento_no_db", "return", FALSE>>
    /\ ~AllBucketsSorted

(***************************************************************************)
(* C11                                                                     *)
(***************************************************************************)
\* No bucket of col holds two entries with equal time and case-insensitively
\* equal subject.
SemDuplicado(col) ==
    \A k \in DOMAIN col :
        \A i, j \in 1..Len(col[k]) :
            (col[k][i].hora = col[k][j].hora
                /\ SameSubject(col[k][i].nome_cachorro, col[k][j].nome_cachorro)) => i = j

\* Handler p is in the Create flow after a conflict check whose storage call
\* failed: verificar_conflito gave its fail-closed False.
CheckFailed(p) ==
    /\ pc[p] = "salvar"
    /\ ret[p] = OnFailure("verificar_conflito")
    /\ erro[p] \/ ~client

\* C11: when the conflict check of a Create command returned false because its
\* storage call failed, the flow does not go on to insert: its next step never
\* stores a duplicate (same date, time and case-insensitively equal subject).
C11_FailedCheckNeverStoresDuplicate ==
    [][\A p \in Procs :
          (CheckFailed(p) /\ SemDuplicado(agenda_collection))
              => SemDuplicado(agenda_collection')]_vars

(***************************************************************************)
(* C12                                                                     *)
(***************************************************************************)
\* Text t begins with keyword k.
ComecaCom(t, k) == \E n \in 0..Len(t) : SubSeq(t, 1, n) = k

\* The command of a message text by the ordered rules on its lowercased,
\* trimmed form: help, query, delete, clear, else create.
Intent(t) ==
    LET n == str_strip(str_lower(t))
    IN IF n = w_ajuda THEN "comando_ajuda"
       ELSE IF ComecaCom(n, w_agenda) THEN "tratar_ver_agenda"
       ELSE IF ComecaCom(n, w_apagar) THEN "tratar_apagar_agendamento"
       ELSE IF ComecaCom(n, w_limpar) THEN "tratar_limpar_agenda"
       ELSE "tratar_novo_agendamento"

\* C12: for every message with text, handle_text runs exactly one handler, the
\* one the ordered rules give for the lowercased, trimmed text: "ajuda" exactly
\* is Help, a text starting with "agenda" is Query, with "apagar" Delete, with
\* "limpar" Clear, and every other text is Create with the entire text handed
\* to analisar_agendamento.
C12_RouterFirstMatch ==
    \A p \in Procs :
        (pc[p] # "idle" /\ update[p] # <<>>) =>
            /\ tratou[p] = <<Intent(update[p])>>
            /\ (Intent(update[p]) = "tratar_novo_agendamento"
                    /\ pc[p] \in {"done", "salvar", "sort"})
                   => /\ analise[p].fn = "analisar_agendamento"
                      /\ analise[p].entrada = update[p]

\* "ajuda Rex" is not exactly the help keyword: it went to the Create flow, which
\* handed the whole text to analisar_agendamento.
C12_Witness ==
    /\ pc["h1"] = "done"
    /\ update["h1"] = str_join(<<w_ajuda, Rex>>)
    /\ tratou["h1"] = <<"tratar_novo_agendamento">>
    /\ analise["h1"].entrada = str_join(<<w_ajuda, Rex>>)

(***************************************************************************)
(* C13                                                                     *)
(***************************************************************************)
\* C13: a failure raised while a handler or a component it calls processes a
\* message is caught by handle_text and turned into an error reply for that
\* message: no exception leaves handle_text.
C13_NoFaultEscapes == \A p \in Procs : excecao[p] # "escapou"

(***************************************************************************)
(* C14                                                                     *)
(***************************************************************************)
\* The date/time parser accepts text w at the current clock.
Parses(w) == dateparser_parse(w, agora, hora_sozinha) # None

\* The trailing window of the last k tokens, as one text.
TrailingWindow(tokens, k) == str_join(SubSeq(tokens, Len(tokens) - k + 1, Len(tokens)))

\* The sizes of the trailing windows that parse.
ParsingSizes(tokens) == { k \in 1..Len(tokens) : Parses(TrailingWindow(tokens, k)) }

\* The size of the shortest trailing window that parses.
ShortestSize(tokens) ==
    CHOOSE k \in ParsingSizes(tokens) : \A j \in ParsingSizes(tokens) : k <= j

C15_RexTomorrow3pm ==
    \A p \in Procs :
        (/\ analise[p].fn = "analisar_agendamento"
         /\ agora = datetime(2024, 1, 10, 10, 0)
         /\ Parses(w_3pm)
         /\ Parses(str_join(<<w_tomorrow, w_3pm>>))) =>
            /\ analise[p].entrada = str_join(<<Rex, w_tomorrow, w_3pm>>)
                  => analise[p].saida = <<Rex, datetime(2024, 1, 11, 15, 0), "">>
            /\ analise[p].entrada = str_join(<<w_tomorrow, w_3pm>>)
                  => analise[p].saida = <<<<>>, None, ErroNomeVazio>>

(***************************************************************************)
(* C16                                                                     *)
(***************************************************************************)
\* Text w contains the literal lit.
Contains(w, lit) == \E i \in 0..(Len(w) - Len(lit)) : SubSeq(w, i + 1, i + Len(lit)) = lit

\* The window names midnight in one of the two spellings the extractor knows.
NamesMidnight(w) == Contains(w, w_0000) \/ Contains(w, w_meia_noite)

\* A window of the tokens parses, and the shortest one resolves to 00:00
\* without naming midnight.
ZeroTimeUnnamed(tokens) ==
    /\ ParsingSizes(tokens) # {}
    /\ LET w == TrailingWindow(tokens, ShortestSize(tokens))
           dt == dateparser_parse(w, agora, hora_sozinha)
       IN dt.hour = 0 /\ dt.minute = 0 /\ ~NamesMidnight(w)

\* Tokens precede the shortest window that parses.
HasSubject(tokens) == ParsingSizes(tokens) # {} /\ ShortestSize(tokens) < Len(tokens)

\* A window of the tokens parses, the shortest one names midnight and resolves
\* to 00:00.
MidnightNamed(tokens) ==
    /\ ParsingSizes(tokens) # {}
    /\ LET w == TrailingWindow(tokens, ShortestSize(tokens))
           dt == dateparser_parse(w, agora, hora_sozinha)
       IN dt.hour = 0 /\ dt.minute = 0 /\ NamesMidnight(w)

\* In this step the Create or Delete flow of handler p gets the result r of
\* analisar_agendamento; when r is an error the step calls no store function
\* and leaves the store as it was.
ErrorLeavesStore(p, r) ==
    r[3] # "" =>
        /\ r[3] \in {ErroNomeVazio, ErroSemHorario, ErroSemData}
        /\ agenda_collection' = agenda_collection
        /\ pc'[p] = "done"
        /\ ret'[p] = NoRet

\* In this step handler p calls analisar_agendamento.
Extracts(p) == analise'[p] # analise[p] /\ analise'[p].fn = "analisar_agendamento"

\* C16 as stated: the extractor fails with missing-time exactly when the winning
\* window resolves to hour 0 and minute 0 and contains neither "00:00" nor
\* "meia-noite"; a window naming midnight is accepted with time 00:00; in the
\* Create and Delete flows an extraction failure leaves the store unchanged.
C16_MissingTimeExactly ==
    [][\A p \in Procs :
          Extracts(p) =>
              LET tokens == str_split(analise'[p].entrada)
                  r == analise'[p].saida
              IN /\ r[3] = ErroSemHorario <=> ZeroTimeUnnamed(tokens)
                 /\ (HasSubject(tokens) /\ MidnightNamed(tokens))
                        => r[3] = "" /\ strftime_HM(r[2]) = strftime_HM(datetime(0, 0, 0, 0, 0))
                 /\ ErrorLeavesStore(p, r)]_vars

\* C16, amended: the extractor fails with missing-time exactly when tokens
\* precede the winning window (with none it fails with empty-subject) and the
\* window resolves to hour 0 and minute 0 and contains neither "00:00" nor
\* "meia-noite"; a window naming midnight after a subject is accepted with time
\* 00:00; in the Create and Delete flows an extraction failure leaves the store
\* unchanged.
C16_MissingTimeAfterSubject ==
    [][\A p \in Procs :
          Extracts(p) =>
              LET tokens == str_split(analise'[p].entrada)
                  r == analise'[p].saida
              IN /\ r[3] = ErroSemHorario <=> (HasSubject(tokens) /\ ZeroTimeUnnamed(tokens))
                 /\ (ParsingSizes(tokens) # {} /\ ~HasSubject(tokens)) => r[3] = ErroNomeVazio
                 /\ (HasSubject(tokens) /\ MidnightNamed(tokens))
                        => r[3] = "" /\ strftime_HM(r[2]) = strftime_HM(datetime(0, 0, 0, 0, 0))
                 /\ ErrorLeavesStore(p, r)]_vars

\* The Delete flow has refused "apagar Rex amanhã" for its missing time while an
\* appointment was stored.
C16_Witness ==
    /\ pc["h1"] = "done"
    /\ update["h1"] = str_join(<<w_apagar, Rex, w_amanha>>)
    /\ analise["h1"].saida = <<<<>>, None, ErroSemHorario>>
    /\ ret["h1"] = NoRet
    /\ Stored > 0

(***************************************************************************)
(* C17                                                                     *)
(***************************************************************************)
\* The phrases that are the name of August, alone or after the query keyword.
AugustPhrases == {w_agosto, w_august, str_join(<<w_agenda, w_de, w_agosto>>)}

\* C17: analisar_consulta_agenda resolves a month name to the range from the
\* 1st to the last day of that month in the current year, whatever the month
\* of today and whatever the free parser makes of the name.
C17_MonthNameCurrentYear ==
    \A p \in Procs :
        (analise[p].fn = "analisar_consulta_agenda" /\ analise[p].entrada \in AugustPhrases) =>
            /\ analise[p].saida[1] = datetime(agora.year, 8, 1, 0, 0)
            /\ analise[p].saida[2] = datetime(agora.year, 8, 31, 0, 0)

(***************************************************************************)
(* C18                                                                     *)
(***************************************************************************)
\* The days of a common year before each month.
CumDays == <<0, 31, 59, 90, 120, 151, 181, 212, 243, 273, 304, 334>>

\* The number of days from Sunday 2023-01-01 to date d (2023 to 2027).
DaysSince2023(d) ==
    (d.year - 2023) * 365
        + (IF d.year > 2024 \/ (d.year = 2024 /\ d.month > 2) THEN 1 ELSE 0)
        + CumDays[d.month] + d.day - 1

\* d is a date of the calendar at 00:00.
IsCalendarDay(d) ==
    /\ d.month \in 1..12
    /\ d.day >= 1
    /\ d.day <= (IF d.month = 2 THEN (IF d.year = 2024 THEN 29 ELSE 28)
                 ELSE IF d.month \in {4, 6, 9, 11} THEN 30 ELSE 31)
    /\ d.hour = 0 /\ d.minute = 0

\* The phrases that resolve to the week.
WeekPhrases == {w_semana, str_join(<<w_agenda, w_semana>>)}

\* C18: for every today, "semana" resolves to the range from the Monday of
\* today's week to the Sunday of the same week: the start is a Monday not after
\* today, the end is six days later and not before today; on Wednesday
\* 2024-01-10 the range is 2024-01-08 to 2024-01-14.
C18_WeekMondayToSunday ==
    \A p \in Procs :
        (analise[p].fn = "analisar_consulta_agenda" /\ analise[p].entrada \in WeekPhrases) =>
            LET inicio == analise[p].saida[1]
                fim == analise[p].saida[2]
                hoje == [agora EXCEPT !.hour = 0, !.minute = 0]
            IN /\ IsCalendarDay(inicio) /\ IsCalendarDay(fim)
               /\ DaysSince2023(inicio) % 7 = 1
               /\ DaysSince2023(fim) = DaysSince2023(inicio) + 6
               /\ DaysSince2023(inicio) <= DaysSince2023(hoje)
               /\ DaysSince2023(hoje) <= DaysSince2023(fim)
               /\ agora = datetime(2024, 1, 10, 10, 0)
                     => /\ inicio = datetime(2024, 1, 8, 0, 0)
                        /\ fim = datetime(2024, 1, 14, 0, 0)

\* On Thursday 2024-02-29 the week runs from Monday 2024-02-26 to Sunday
\* 2024-03-03, across the end of the leap February.
C18_Witness ==
    /\ agora = datetime(2024, 2, 29, 10, 0)
    /\ analise["h1"].fn = "analisar_consulta_agenda"
    /\ analise["h1"].entrada = w_semana
    /\ analise["h1"].saida[1] = datetime(2024, 2, 26, 0, 0)
    /\ analise["h1"].saida[2] = datetime(2024, 3, 3, 0, 0)

(***************************************************************************)
(* C19                                                                     *)
(***************************************************************************)
\* The range a handler got from analisar_consulta_agenda.
Periodo(p) == <<analise[p].saida[1], analise[p].saida[2]>>

Hoje00 == [agora EXCEPT !.hour = 0, !.minute = 0]

\* The Monday-to-Sunday range of Wednesday 2024-01-10 and the range of its month.
SemanaDe0110 == <<datetime(2024, 1, 8, 0, 0), datetime(2024, 1, 14, 0, 0)>>
MesDe0110 == <<datetime(2024, 1, 1, 0, 0), datetime(2024, 1, 31, 0, 0)>>

\* The period each example of the help text names, on 2024-01-10.
HelpExamples ==
    { <<str_join(<<w_agenda, w_de, w_hoje>>), <<Hoje00, Hoje00>>>>,
      <<str_join(<<w_agenda, w_do, w_dia>>), <<Hoje00, Hoje00>>>>,
      <<str_join(<<w_limpar, w_agenda, w_de, w_hoje>>), <<Hoje00, Hoje00>>>>,
      <<str_join(<<w_agenda, w_da, w_semana>>), SemanaDe0110>>,
      <<str_join(<<w_limpar, w_agenda, w_da, w_semana>>), SemanaDe0110>>,
      <<str_join(<<w_agenda, w_do, w_mes>>), MesDe0110>>,
      <<str_join(<<w_limpar, w_agenda, w_do, w_mes>>), MesDe0110>> }

\* C19: every example of the help text for viewing and clearing the agenda is
\* resolved by its handler to the period it names: the week examples to Monday
\* to Sunday of the current week, the month examples to the first to the last
\* day of the current month, the today examples to today alone; none ends in
\* the unrecognized-phrase error.
C19_HelpExamplesResolve ==
    \A p \in Procs : \A e \in HelpExamples :
        (update[p] = e[1] /\ analise[p].fn = "analisar_consulta_agenda") =>
            /\ analise[p].saida[3][1] # ErroPeriodo
            /\ Periodo(p) = e[2]

(***************************************************************************)
(* C20                                                                     *)
(***************************************************************************)
\* The step is the first insertion for date d: the upsert of
\* salvar_agendamento_no_db on a date that has no document.
FirstInsertion(d) ==
    \E p \in Procs :
        /\ pc[p] = "salvar"
        /\ pc'[p] = "sort"
        /\ cmd[p].ini = d
        /\ agenda_collection'[d] = <<NovoAgendamento(cmd[p].hora, cmd[p].nome)>>

\* The step executes a Clear over more than one day whose range covers d.
MultiDayClearCovering(d) ==
    \E p \in Procs :
        /\ pc[p] = "delete_many"
        /\ pc'[p] = "done"
        /\ cmd[p].ini # cmd[p].fim
        /\ StrLeq(cmd[p].ini, d)
        /\ StrLeq(d, cmd[p].fim)

\* C20: bucket lifecycle.  The bucket of a date starts to exist only in the
\* first insertion for that date, and stops existing only when a Clear over
\* more than one day whose range covers the date is executed; so it stays
\* through every Create, Query, Delete and single-day Clear, which leave at
\* most an empty bucket.
C20_BucketLifecycle ==
    [][\A d \in DOMAIN agenda_collection \cup DOMAIN agenda_collection' :
          /\ (d \notin DOMAIN agenda_collection) => FirstInsertion(d)
          /\ (d \notin DOMAIN agenda_collection') => MultiDayClearCovering(d)]_vars

\* A Delete removed the last entry of a bucket and the empty bucket is there.
C20_Witness ==
    /\ ret["h1"] = Returns("apagar_agendamento_do_db", TRUE)
    /\ \E d \in DOMAIN agenda_collection : agenda_collection[d] = <<>>

(***************************************************************************)
(* C21                                                                     *)
(***************************************************************************)
\* Handler p is inside salvar_agendamento_no_db: before its first update_one
\* ("salvar") or between its two update_one calls ("sort").
InSalvar(p) == pc[p] \in {"salvar", "sort"}

\* The call of salvar_agendamento_no_db in progress has had its first
\* update_one (the $push with upsert) applied to the collection.
PushApplied(p) == pc[p] = "sort"

\* In this step salvar_agendamento_no_db returns false to handler p.
SalvarReturnsFalse(p) ==
    InSalvar(p) /\ ret'[p] = Returns("salvar_agendamento_no_db", FALSE)

\* C21: if salvar_agendamento_no_db returns false, the store is as it was when
\* the call began, whichever of its storage calls failed: the call has applied
\* no update before it returns false, and returning changes nothing.
C21_FalseLeavesStoreUnchanged ==
    [][\A p \in Procs :
          SalvarReturnsFalse(p) =>
              /\ ~PushApplied(p)
              /\ agenda_collection' = agenda_collection]_vars

(***************************************************************************)
(* C22                                                                     *)
(***************************************************************************)
\* In this step handler p executes the delete_many of a Clear over a range and
\* limpar_agendamentos_do_db returns its count.
ClearRangeReturns(p) ==
    /\ pc[p] = "delete_many"
    /\ ret'[p][1] = "limpar_agendamentos_do_db"
    /\ ret'[p][2] = "return"

\* The number of appointments the step removes from the store by deleting
\* documents.
RemovedByStep ==
    SumLen(agenda_collection, DOMAIN agenda_collection \ DOMAIN agenda_collection')

\* C22: whatever Create and Delete commands run beside a Clear over several
\* days, the count the Clear returns is the number of appointments it removed
\* from the store.
C22_ClearCountIsRemoved ==
    [][\A p \in Procs : ClearRangeReturns(p) => ret'[p][3] = RemovedByStep]_vars

====
